---------------------------- MODULE Spec2Model ----------------------------
(***************************************************************************)
(* A model of wvec (src/src/lib.rs): the Vector2 value type exposed to     *)
(* Python through pyo3, and VecIter, the cursor that iterates it.          *)
(*                                                                         *)
(* Coordinates are IEEE-754 binary64 values.  A finite value is kept as    *)
(* sign, significand and quantum exponent (value = m * 2^q); significands  *)
(* are 53 bits wide, which does not fit TLC's integers, so they are kept   *)
(* as little-endian sequences of 15-bit limbs and the arithmetic is done   *)
(* on those, with round-to-nearest-even, gradual underflow and overflow to *)
(* infinity as the hardware does it.                                       *)
(***************************************************************************)
EXTENDS Integers, Sequences, FiniteSets, TLC

(***************************************************************************)
(* Natural numbers of any size: little-endian limb sequences, no leading   *)
(* zero limb, zero is the empty sequence.                                  *)
(***************************************************************************)
Base == 2^15

Max(a, b) == IF a >= b THEN a ELSE b
Min(a, b) == IF a <= b THEN a ELSE b

RECURSIVE BNorm(_)
BNorm(a) ==
  IF a = <<>> THEN a
  ELSE IF a[Len(a)] = 0 THEN BNorm(SubSeq(a, 1, Len(a) - 1)) ELSE a

BLimb(a, i) == IF i <= Len(a) THEN a[i] ELSE 0

RECURSIVE BFromInt(_)
BFromInt(n) == IF n = 0 THEN <<>> ELSE <<n % Base>> \o BFromInt(n \div Base)

RECURSIVE BAddFrom(_, _, _, _)
BAddFrom(a, b, i, c) ==
  IF i > Len(a) /\ i > Len(b)
  THEN (IF c = 0 THEN <<>> ELSE <<c>>)
  ELSE LET s == BLimb(a, i) + BLimb(b, i) + c
       IN  <<s % Base>> \o BAddFrom(a, b, i + 1, s \div Base)

BAdd(a, b) == BAddFrom(a, b, 1, 0)

\* a - b for a >= b
RECURSIVE BSubFrom(_, _, _, _)
BSubFrom(a, b, i, c) ==
  IF i > Len(a) THEN <<>>
  ELSE LET s == a[i] - BLimb(b, i) - c
       IN  IF s < 0 THEN <<s + Base>> \o BSubFrom(a, b, i + 1, 1)
           ELSE <<s>> \o BSubFrom(a, b, i + 1, 0)

BSub(a, b) == BNorm(BSubFrom(a, b, 1, 0))

\* -1, 0 or 1 as a < b, a = b, a > b
RECURSIVE BCmpFrom(_, _, _)
BCmpFrom(a, b, i) ==
  IF i = 0 THEN 0
  ELSE IF a[i] < b[i] THEN -1
  ELSE IF a[i] > b[i] THEN 1
  ELSE BCmpFrom(a, b, i - 1)

BCmp(a, b) ==
  IF Len(a) < Len(b) THEN -1
  ELSE IF Len(a) > Len(b) THEN 1
  ELSE BCmpFrom(a, b, Len(a))

\* a * k for 0 <= k < Base
RECURSIVE BMulSmallFrom(_, _, _, _)
BMulSmallFrom(a, k, i, c) ==
  IF i > Len(a) THEN (IF c = 0 THEN <<>> ELSE <<c>>)
  ELSE LET s == a[i] * k + c
       IN  <<s % Base>> \o BMulSmallFrom(a, k, i + 1, s \div Base)

BMulSmall(a, k) == IF k = 0 THEN <<>> ELSE BMulSmallFrom(a, k, 1, 0)

BShiftLimbs(a, n) == IF a = <<>> THEN a ELSE [i \in 1..n |-> 0] \o a

RECURSIVE BMulFrom(_, _, _)
BMulFrom(a, b, i) ==
  IF i > Len(b) THEN <<>>
  ELSE BAdd(BShiftLimbs(BMulSmall(a, b[i]), i - 1), BMulFrom(a, b, i + 1))

BMul(a, b) == BMulFrom(a, b, 1)

\* a * 2^n
BShl(a, n) == BShiftLimbs(BMulSmall(a, 2^(n % 15)), n \div 15)

\* floor(a / 2^n)
BShr(a, n) ==
  LET k == n \div 15
      r == n % 15
  IN  IF k >= Len(a) THEN <<>>
      ELSE BNorm([i \in 1..(Len(a) - k) |->
                    (a[i + k] \div 2^r) + (BLimb(a, i + k + 1) % 2^r) * 2^(15 - r)])

\* bit i of a, bit 0 the lowest
BBit(a, i) == (BLimb(a, (i \div 15) + 1) \div 2^(i % 15)) % 2

RECURSIVE SmallBitLen(_)
SmallBitLen(n) == IF n = 0 THEN 0 ELSE 1 + SmallBitLen(n \div 2)

BBitLen(a) == IF a = <<>> THEN 0 ELSE (Len(a) - 1) * 15 + SmallBitLen(a[Len(a)])

BOdd(a) == a # <<>> /\ a[1] % 2 = 1

\* whether the low n bits of a hold a one
BLowBits(a, n) == BShl(BShr(a, n), n) # a

\* a mod 2^n
BTrunc(a, n) == BSub(a, BShl(BShr(a, n), n))

\* Long division, one limb of the dividend: st holds the quotient and remainder of
\* the limbs above limb.  d has its top bit set in its top limb, so the digit
\* estimated from the top limbs is at most two too large.
BDivLimb(d, limb, st) ==
  LET r  == BNorm(<<limb>> \o st.rem)
      n  == Len(d)
      qh == Min((BLimb(r, n + 1) * Base + BLimb(r, n)) \div d[n], Base - 1)
      q1 == IF BCmp(BMulSmall(d, qh), r) > 0 THEN qh - 1 ELSE qh
      q2 == IF BCmp(BMulSmall(d, q1), r) > 0 THEN q1 - 1 ELSE q1
  IN  [quo |-> <<q2>> \o st.quo, rem |-> BSub(r, BMulSmall(d, q2))]

\* The limbs of n from limb i up, the top one first.  The limbs above are divided
\* (up = up) before this one is entered: TLC passes operator arguments unevaluated,
\* and would otherwise nest the whole division in the evaluation of its last step.
RECURSIVE BDivFrom(_, _, _)
BDivFrom(n, d, i) ==
  IF i > Len(n) THEN [quo |-> <<>>, rem |-> <<>>]
  ELSE LET up == BDivFrom(n, d, i + 1)
       IN  IF up = up THEN BDivLimb(d, n[i], up) ELSE up

\* floor(n / d) and n mod d, for d > 0
BDivMod(n, d) ==
  LET sh == 15 * Len(d) - BBitLen(d)
      st == BDivFrom(BShl(n, sh), BShl(d, sh), 1)
  IN  [quo |-> BNorm(st.quo), rem |-> BShr(st.rem, sh)]

\* floor(sqrt(n)) for 0 <= n < 2^30, bit by bit
RECURSIVE SmallSqrt(_, _, _)
SmallSqrt(n, r, i) ==
  IF i = 0 THEN r
  ELSE LET cand == r + 2^(i - 1)
       IN  IF cand * cand <= n THEN SmallSqrt(n, cand, i - 1)
           ELSE SmallSqrt(n, r, i - 1)

\* Newton's iteration from x >= floor(sqrt(n)): it decreases until it reaches the root
RECURSIVE BSqrtNewton(_, _)
BSqrtNewton(n, x) ==
  LET y == BShr(BAdd(x, BDivMod(n, x).quo), 1)
  IN  IF BCmp(y, x) >= 0 THEN x ELSE BSqrtNewton(n, y)

\* floor(sqrt(n)): the start is the root of the top 30 bits, rounded up
BSqrt(n) ==
  IF n = <<>> THEN n
  ELSE LET len == BBitLen(n)
           sh  == IF len <= 30 THEN 0 ELSE 2 * ((len - 29) \div 2)
           t   == BShr(n, sh)
           s   == SmallSqrt(BLimb(t, 2) * Base + BLimb(t, 1), 0, 15)
       IN  BSqrtNewton(n, BShl(BFromInt(s + 1), sh \div 2))

(***************************************************************************)
(* f64: IEEE-754 binary64.  A value is a record: cls is "nan", "inf" or    *)
(* "fin"; a finite value is (-1)^neg * m * 2^q, held canonically: m has    *)
(* exactly Precision bits (a normal number), or q = QMin (a subnormal, or  *)
(* zero with m empty).  There is one NaN: its sign and payload are not     *)
(* observable through any operation of the program.                       *)
(***************************************************************************)
Precision == 53
EMax == 1023
QMin == 2 - EMax - Precision
QMax == EMax - Precision + 1

NaN == [cls |-> "nan", neg |-> FALSE, m |-> <<>>, q |-> 0]
Inf(neg) == [cls |-> "inf", neg |-> neg, m |-> <<>>, q |-> 0]
Zero(neg) == [cls |-> "fin", neg |-> neg, m |-> <<>>, q |-> QMin]

IsNaN(f) == f.cls = "nan"
IsInf(f) == f.cls = "inf"
\* f64::is_finite
IsFinite(f) == f.cls = "fin"
IsZeroF(f) == f.cls = "fin" /\ f.m = <<>>

\* The binary64 nearest to (-1)^neg * (m + d) * 2^q, ties to even, where d = 0, or
\* 0 < d < 1 when sticky (and then m has at least Precision + 2 bits).
RoundFin(neg, m, q, sticky) ==
  IF m = <<>> THEN Zero(neg)
  ELSE
    LET e  == q + BBitLen(m)
        qt == Max(e - Precision, QMin)
    IN  IF qt <= q
        THEN IF qt > QMax THEN Inf(neg)
             ELSE [cls |-> "fin", neg |-> neg, m |-> BShl(m, q - qt), q |-> qt]
        ELSE
          LET s    == qt - q
              keep == BShr(m, s)
              half == BBit(m, s - 1) = 1
              rest == sticky \/ BLowBits(m, s - 1)
              up   == half /\ (rest \/ BOdd(keep))
              mant == IF up THEN BAdd(keep, <<1>>) ELSE keep
              over == BBitLen(mant) > Precision
              m2   == IF over THEN BShr(mant, 1) ELSE mant
              q2   == IF over THEN qt + 1 ELSE qt
          IN  IF m2 = <<>> THEN Zero(neg)
              ELSE IF q2 > QMax THEN Inf(neg)
              ELSE [cls |-> "fin", neg |-> neg, m |-> m2, q |-> q2]

\* The f64 of a small integer, and of a power of two
FromInt(n) == RoundFin(n < 0, BFromInt(IF n < 0 THEN -n ELSE n), 0, FALSE)
Pow2(k) == RoundFin(FALSE, <<1>>, k, FALSE)
FNeg(f) == IF IsNaN(f) THEN f ELSE [f EXCEPT !.neg = ~f.neg]

\* a == b on f64: NaN equals nothing, +0 equals -0
FEq(a, b) ==
  /\ ~IsNaN(a)
  /\ ~IsNaN(b)
  /\ \/ IsZeroF(a) /\ IsZeroF(b)
     \/ a = b

\* a + b.  Operands more than Precision + 3 binary places apart are not aligned
\* exactly: the smaller one only decides the rounding of the larger.
FAdd(a, b) ==
  IF IsNaN(a) \/ IsNaN(b) THEN NaN
  ELSE IF IsInf(a) THEN (IF IsInf(b) /\ a.neg # b.neg THEN NaN ELSE a)
  ELSE IF IsInf(b) THEN b
  ELSE IF IsZeroF(a) /\ IsZeroF(b) THEN Zero(a.neg /\ b.neg)
  ELSE IF IsZeroF(b) THEN a
  ELSE IF IsZeroF(a) THEN b
  ELSE IF a.q - b.q > Precision + 3
       THEN (IF a.neg = b.neg
             THEN RoundFin(a.neg, BShl(a.m, 3), a.q - 3, TRUE)
             ELSE RoundFin(a.neg, BSub(BShl(a.m, 3), <<1>>), a.q - 3, TRUE))
  ELSE IF b.q - a.q > Precision + 3
       THEN (IF a.neg = b.neg
             THEN RoundFin(b.neg, BShl(b.m, 3), b.q - 3, TRUE)
             ELSE RoundFin(b.neg, BSub(BShl(b.m, 3), <<1>>), b.q - 3, TRUE))
  ELSE
    LET q0 == Min(a.q, b.q)
        ma == BShl(a.m, a.q - q0)
        mb == BShl(b.m, b.q - q0)
        c  == BCmp(ma, mb)
    IN  IF a.neg = b.neg THEN RoundFin(a.neg, BAdd(ma, mb), q0, FALSE)
        ELSE IF c = 0 THEN Zero(FALSE)
        ELSE IF c > 0 THEN RoundFin(a.neg, BSub(ma, mb), q0, FALSE)
        ELSE RoundFin(b.neg, BSub(mb, ma), q0, FALSE)

\* a * b
FMul(a, b) ==
  IF IsNaN(a) \/ IsNaN(b) THEN NaN
  ELSE IF IsInf(a) \/ IsInf(b)
       THEN (IF IsZeroF(a) \/ IsZeroF(b) THEN NaN ELSE Inf(a.neg # b.neg))
  ELSE RoundFin(a.neg # b.neg, BMul(a.m, b.m), a.q + b.q, FALSE)

\* m * 2^q with m shifted up to exactly Precision bits (m not zero)
NormM(f) == BShl(f.m, Precision - BBitLen(f.m))
NormQ(f) == f.q - (Precision - BBitLen(f.m))

\* a / b
FDiv(a, b) ==
  IF IsNaN(a) \/ IsNaN(b) THEN NaN
  ELSE IF IsInf(a) THEN (IF IsInf(b) THEN NaN ELSE Inf(a.neg # b.neg))
  ELSE IF IsInf(b) THEN Zero(a.neg # b.neg)
  ELSE IF IsZeroF(b) THEN (IF IsZeroF(a) THEN NaN ELSE Inf(a.neg # b.neg))
  ELSE IF IsZeroF(a) THEN Zero(a.neg # b.neg)
  ELSE
    LET qr == BDivMod(BShl(NormM(a), Precision + 3), NormM(b))
    IN  RoundFin(a.neg # b.neg, qr.quo,
                 NormQ(a) - (Precision + 3) - NormQ(b), qr.rem # <<>>)

\* f64::sqrt
FSqrt(a) ==
  IF IsNaN(a) THEN NaN
  ELSE IF IsZeroF(a) THEN a
  ELSE IF a.neg THEN NaN
  ELSE IF IsInf(a) THEN a
  ELSE
    LET s == IF (NormQ(a) - (Precision + 5)) % 2 = 0
             THEN Precision + 5 ELSE Precision + 6
        n == BShl(NormM(a), s)
        r == BSqrt(n)
    IN  RoundFin(FALSE, r, (NormQ(a) - s) \div 2, BMul(r, r) # n)

One == FromInt(1)
Pi == [cls |-> "fin", neg |-> FALSE, m |-> <<11544, 10376, 2029, 201>>, q |-> -51]
HalfPi == [Pi EXCEPT !.q = -52]
QuarterPi == [Pi EXCEPT !.q = -53]
ThreeQuarterPi ==
  [cls |-> "fin", neg |-> FALSE, m |-> <<8658, 32358, 26097, 150>>, q |-> -51]

\* What the platform's libm returns where IEEE-754 and C99 Annex F do not fix it and
\* it is not tabulated below: a term naming the call, not a number.
LibmTerm(fn, args) == [cls |-> "libm", fn |-> fn, args |-> args]

SignOf(f, neg) == IF neg THEN FNeg(f) ELSE f

\* f64::cos and f64::sin: exact at zero, NaN off the finite numbers, and the
\* platform's values at 1 and at the f64 nearest to pi/2.
Cos(t) ==
  IF ~IsFinite(t) THEN NaN
  ELSE IF IsZeroF(t) THEN One
  ELSE IF t = One
       THEN [cls |-> "fin", neg |-> FALSE, m |-> <<1676, 8042, 10400, 138>>, q |-> -53]
  ELSE IF t = HalfPi
       THEN [cls |-> "fin", neg |-> FALSE, m |-> <<23559, 26152, 6296, 141>>, q |-> -106]
  ELSE LibmTerm("cos", <<t>>)

Sin(t) ==
  IF ~IsFinite(t) THEN NaN
  ELSE IF IsZeroF(t) THEN t
  ELSE IF t = One
       THEN [cls |-> "fin", neg |-> FALSE, m |-> <<3310, 7698, 13650, 215>>, q |-> -53]
  ELSE IF t = HalfPi THEN One
  ELSE LibmTerm("sin", <<t>>)

\* f64::atan2 (y.atan2(x)): the cases C99 Annex F.10.1.4 fixes
Atan2(y, x) ==
  IF IsNaN(y) \/ IsNaN(x) THEN NaN
  ELSE IF IsZeroF(y)
       THEN (IF x.neg THEN SignOf(Pi, y.neg) ELSE y)
  ELSE IF IsZeroF(x) THEN SignOf(HalfPi, y.neg)
  ELSE IF IsInf(y)
       THEN (IF ~IsInf(x) THEN SignOf(HalfPi, y.neg)
             ELSE IF x.neg THEN SignOf(ThreeQuarterPi, y.neg)
             ELSE SignOf(QuarterPi, y.neg))
  ELSE IF IsInf(x)
       THEN (IF x.neg THEN SignOf(Pi, y.neg) ELSE Zero(y.neg))
  ELSE LibmTerm("atan2", <<y, x>>)

(***************************************************************************)
(* Vector2 (lib.rs 11-94): a value is the record of its two fields.        *)
(***************************************************************************)
Vector2(x, y) == [x |-> x, y |-> y]

Ok(v) == [t |-> "Ok", v |-> v]
Err(exc, msg) == [t |-> "Err", exc |-> exc, msg |-> msg]

\* new with a gate that turns away NaN only
new_not_nan(x, y) ==
  IF ~IsNaN(x) /\ ~IsNaN(y)
  THEN Ok(Vector2(x, y))
  ELSE Err("ValueError", "x/y values may not be NaN/inf")

\* Vector2::new
new(x, y) ==
  IF IsFinite(x) /\ IsFinite(y)
  THEN Ok(Vector2(x, y))
  ELSE Err("ValueError", "x/y values may not be NaN/inf")

\* Vector2::from_polar
from_polar(r, theta) == Ok(Vector2(FMul(r, Cos(theta)), FMul(r, Sin(theta))))

\* Vector2::is_zero
is_zero(self) == FEq(self.x, Zero(FALSE)) /\ FEq(self.y, Zero(FALSE))

\* Vector2::dot
dot(self, other) == FAdd(FMul(self.x, other.x), FMul(self.y, other.y))

\* Vector2::length_squared
length_squared(self) == dot(self, self)

\* Vector2::length
length(self) == FSqrt(length_squared(self))

\* Vector2::angle
angle(self) == Atan2(self.y, self.x)

\* Vector2::to_polar
to_polar(self) == <<length(self), angle(self)>>

\* Vector2::normalized
normalized(self) ==
  IF is_zero(self) THEN Vector2(One, Zero(FALSE))
  ELSE LET mag == length(self)
       IN  Vector2(FDiv(self.x, mag), FDiv(self.y, mag))

\* PyNumberProtocol::__add__ and __mul__
add(lhs, rhs) == Vector2(FAdd(lhs.x, rhs.x), FAdd(lhs.y, rhs.y))
mul(lhs, rhs) == Vector2(FMul(lhs.x, rhs), FMul(lhs.y, rhs))

\* PySequenceProtocol::__len__
len(self) == 2

\* PyObjectProtocol::__repr__: the pieces of format!("Vector2({}, {})", x, y); the
\* decimal digits Display chooses for an f64 are not modelled.
repr(self) ==
  <<"Vector2(", [fmt |-> "Display", v |-> self.x], ", ",
    [fmt |-> "Display", v |-> self.y], ")">>

\* PyObjectProtocol::__str__
str(self) == repr(self)

(***************************************************************************)
(* The Python objects __richcmp__ may be handed (other: &PyAny), as far as *)
(* its two extractions tell them apart: a Vector2, a sequence with its     *)
(* items (a list, a tuple, a str, ...), or anything else (None, a float).  *)
(***************************************************************************)
PyVector2(v) == [kind |-> "Vector2", v |-> v]
PySeq(items) == [kind |-> "seq", items |-> items]
PyOther == [kind |-> "other"]
PyFloat(f) == [t |-> "float", v |-> f]
PyInt(n) == [t |-> "int", v |-> n]
PyStr == [t |-> "str"]

Bool(b) == [t |-> "bool", v |-> b]
NotImplemented == [t |-> "NotImplemented"]

\* other.extract::<Vector2>(): a copy of the vector, for a Vector2 only
extract_Vector2(other) ==
  IF other.kind = "Vector2" THEN Ok(other.v) ELSE Err("TypeError", "")

\* item.extract::<f64>(): a float as it is, an int converted, nothing else
extract_f64(item) ==
  IF item.t = "float" THEN Ok(item.v)
  ELSE IF item.t = "int" THEN Ok(FromInt(item.v))
  ELSE Err("TypeError", "")

\* other.extract::<Vec<f64>>(): every item of a sequence, or the first failure
extract_Vec_f64(other) ==
  IF other.kind # "seq" THEN Err("TypeError", "")
  ELSE IF \E i \in DOMAIN other.items : extract_f64(other.items[i]).t = "Err"
       THEN Err("TypeError", "")
  ELSE Ok([i \in DOMAIN other.items |-> extract_f64(other.items[i]).v])

CompareOps == {"Lt", "Le", "Eq", "Ne", "Gt", "Ge"}

\* __richcmp__ comparing the first two items of a sequence of any length
richcmp_prefix(self, other, op) ==
  IF op \notin {"Eq", "Ne"} THEN NotImplemented
  ELSE
    LET cmp == (op = "Ne")
        ev  == extract_Vector2(other)
        es  == extract_Vec_f64(other)
    IN  IF ev.t = "Ok"
        THEN Bool((FEq(ev.v.x, self.x) /\ FEq(ev.v.y, self.y)) # cmp)
        ELSE IF es.t = "Ok"
        THEN Bool((/\ Len(es.v) >= 2
                   /\ FEq(es.v[1], self.x)
                   /\ FEq(es.v[2], self.y)) # cmp)
        ELSE NotImplemented

\* __richcmp__ answering unequal, not NotImplemented, for what it cannot extract
richcmp_unequal(self, other, op) ==
  IF op \notin {"Eq", "Ne"} THEN NotImplemented
  ELSE
    LET cmp == (op = "Ne")
        ev  == extract_Vector2(other)
        es  == extract_Vec_f64(other)
    IN  IF ev.t = "Ok"
        THEN Bool((FEq(ev.v.x, self.x) /\ FEq(ev.v.y, self.y)) # cmp)
        ELSE IF es.t = "Ok"
        THEN Bool((/\ Len(es.v) = 2
                   /\ FEq(es.v[1], self.x)
                   /\ FEq(es.v[2], self.y)) # cmp)
        ELSE Bool(cmp)

\* PyObjectProtocol::__richcmp__
richcmp(self, other, op) ==
  IF op \notin {"Eq", "Ne"} THEN NotImplemented
  ELSE
    LET cmp == (op = "Ne")
        ev  == extract_Vector2(other)
        es  == extract_Vec_f64(other)
    IN  IF ev.t = "Ok"
        THEN LET eq == FEq(ev.v.x, self.x) /\ FEq(ev.v.y, self.y)
             IN  Bool(eq # cmp)
        ELSE IF es.t = "Ok"
        THEN LET vals == es.v
                 eq   == /\ Len(vals) = 2
                         /\ FEq(vals[1], self.x)
                         /\ FEq(vals[2], self.y)
             IN  Bool(eq # cmp)
        ELSE NotImplemented

(***************************************************************************)
(* VecIter (lib.rs 166-198).  pos is a usize, 64 bits wide on the x86_64   *)
(* target: wider than TLC's integers, so it is kept as a limb sequence.    *)
(***************************************************************************)
UsizeBits == 64
UsizeMax == BSub(BShl(BFromInt(1), UsizeBits), BFromInt(1))

Some(f) == [t |-> "Some", v |-> f]
None == [t |-> "None"]
Panic == [t |-> "panic", msg |-> "attempt to add with overflow"]

\* PyIterProtocol for Vector2: __iter__
iter(self) == [v |-> self, pos |-> BFromInt(0)]

\* __next__ counting its positions from 1
next_res_from_1(it) ==
  IF it.pos = BFromInt(1) THEN [t |-> "Some", v |-> it.v.x]
  ELSE IF it.pos = BFromInt(2) THEN [t |-> "Some", v |-> it.v.y]
  ELSE [t |-> "None"]

\* The value __next__ computes before it advances
next_res(it) ==
  IF it.pos = BFromInt(0) THEN Some(it.v.x)
  ELSE IF it.pos = BFromInt(1) THEN Some(it.v.y)
  ELSE None

\* slf.pos += 1 in a build without overflow checks
next_pos(it) == BTrunc(BAdd(it.pos, BFromInt(1)), UsizeBits)

(***************************************************************************)
(* The state: the Vector2 and VecIter objects the interpreter holds, and   *)
(* what the last call returned.                                            *)
(*   vecs    the Vector2 objects, in the order they were created           *)
(*   iters   the VecIter objects: v (the copied vector) and pos            *)
(*   src     for each VecIter, the Vector2 object it was made from         *)
(*   calls   for each VecIter, how often __next__ was called on it         *)
(*   done    for each VecIter, whether __next__ has returned None          *)
(*   ret     the last call: op, args and the value returned                *)
(*   checks  whether the build checks integer overflow (a debug build)     *)
(***************************************************************************)
VARIABLES vecs, iters, src, calls, done, ret, checks

vars == <<vecs, iters, src, calls, done, ret, checks>>

MaxVecs == 2
MaxIters == 2
MaxSeqLen == 3
MaxCalls == 4

R(op, args, val) == [op |-> op, args |-> args, val |-> val]
Unit == [t |-> "unit"]
F64(f) == [t |-> "f64", v |-> f]
Ref(cls, i) == [t |-> cls, ref |-> i]

Init ==
  /\ vecs = <<>>
  /\ iters = <<>>
  /\ src = <<>>
  /\ calls = <<>>
  /\ done = <<>>
  /\ ret = R("init", <<>>, Unit)
  /\ checks \in BOOLEAN

\* A call that returns a new Vector2 object
Alloc(op, args, v) ==
  /\ Len(vecs) < MaxVecs
  /\ vecs' = Append(vecs, v)
  /\ ret' = R(op, args, Ref("Vector2", Len(vecs) + 1))
  /\ UNCHANGED <<iters, src, calls, done, checks>>

\* A call that only returns a value
Query(op, args, val) ==
  /\ ret' = R(op, args, val)
  /\ UNCHANGED <<vecs, iters, src, calls, done, checks>>

\* Vector2(x, y)
New(x, y) ==
  LET r == new(x, y)
  IN  IF r.t = "Ok" THEN Alloc("new", <<x, y>>, r.v)
      ELSE Query("new", <<x, y>>, r)

\* Vector2.from_polar(r, theta)
FromPolar(r, theta) == Alloc("from_polar", <<r, theta>>, from_polar(r, theta).v)

\* v.x and v.y: #[pyo3(get)]
GetX(i) == Query("x", <<i>>, F64(vecs[i].x))
GetY(i) == Query("y", <<i>>, F64(vecs[i].y))

IsZero(i) == Query("is_zero", <<i>>, Bool(is_zero(vecs[i])))
LengthSquared(i) == Query("length_squared", <<i>>, F64(length_squared(vecs[i])))
Length(i) == Query("length", <<i>>, F64(length(vecs[i])))
Angle(i) == Query("angle", <<i>>, F64(angle(vecs[i])))
ToPolar(i) == Query("to_polar", <<i>>, [t |-> "tuple", v |-> to_polar(vecs[i])])
Dot(i, j) == Query("dot", <<i, j>>, F64(dot(vecs[i], vecs[j])))
Normalized(i) == Alloc("normalized", <<i>>, normalized(vecs[i]))
Repr(i) == Query("repr", <<i>>, [t |-> "str", v |-> repr(vecs[i])])
Str(i) == Query("str", <<i>>, [t |-> "str", v |-> str(vecs[i])])
RichCmp(i, other, op) == Query("richcmp", <<i, other, op>>, richcmp(vecs[i], other, op))
\* __add__ storing the sum in its left operand
Add_in_place(i, j) ==
  /\ vecs' = [vecs EXCEPT ![i] = add(vecs[i], vecs[j])]
  /\ ret' = R("add", <<i, j>>, Ref("Vector2", i))
  /\ UNCHANGED <<iters, src, calls, done, checks>>

Add(i, j) == Alloc("add", <<i, j>>, add(vecs[i], vecs[j]))
Mul(i, k) == Alloc("mul", <<i, k>>, mul(vecs[i], k))
Len_(i) == Query("len", <<i>>, [t |-> "usize", v |-> len(vecs[i])])

\* iter(v): Vector2::__iter__
Iter(i) ==
  /\ Len(iters) < MaxIters
  /\ iters' = Append(iters, iter(vecs[i]))
  /\ src' = Append(src, i)
  /\ calls' = Append(calls, BFromInt(0))
  /\ done' = Append(done, FALSE)
  /\ ret' = R("iter", <<i>>, Ref("VecIter", Len(iters) + 1))
  /\ UNCHANGED <<vecs, checks>>

\* iter(it): VecIter::__iter__ returns the cursor itself
IterIter(c) ==
  /\ ret' = R("iter_iter", <<c>>, Ref("VecIter", c))
  /\ UNCHANGED <<vecs, iters, src, calls, done, checks>>

\* __next__ on cursors that share one position per vector
Next_shared(c) ==
  /\ calls' = [calls EXCEPT ![c] = BAdd(@, BFromInt(1))]
  /\ UNCHANGED <<vecs, src, checks>>
  /\ IF iters[c].pos = UsizeMax /\ checks
     THEN /\ ret' = R("next", <<c>>, Panic)
          /\ UNCHANGED <<iters, done>>
     ELSE /\ ret' = R("next", <<c>>, next_res(iters[c]))
          /\ iters' = [d \in DOMAIN iters |->
                         IF src[d] = src[c]
                         THEN [iters[d] EXCEPT !.pos = next_pos(iters[c])]
                         ELSE iters[d]]
          /\ done' = [done EXCEPT ![c] = @ \/ next_res(iters[c]) = None]

\* next(it): VecIter::__next__.  At pos = usize::MAX the increment overflows: a build
\* with overflow checks panics there, before pos is stored and before the value is
\* returned; a build without them wraps pos to 0.
Next(c) ==
  /\ calls' = [calls EXCEPT ![c] = BAdd(@, BFromInt(1))]
  /\ UNCHANGED <<vecs, src, checks>>
  /\ IF iters[c].pos = UsizeMax /\ checks
     THEN /\ ret' = R("next", <<c>>, Panic)
          /\ UNCHANGED <<iters, done>>
     ELSE /\ ret' = R("next", <<c>>, next_res(iters[c]))
          /\ iters' = [iters EXCEPT ![c].pos = next_pos(iters[c])]
          /\ done' = [done EXCEPT ![c] = @ \/ next_res(iters[c]) = None]

(***************************************************************************)
(* The arguments the calls are tried with, and the specifications: each    *)
(* tries one group of calls on a range of arguments, Spec tries every call *)
(* on a few.                                                               *)
(***************************************************************************)
Tiny == Pow2(QMin)
Huge == Pow2(EMax)

RECURSIVE SeqsOfLen(_, _)
SeqsOfLen(S, n) ==
  IF n = 0 THEN {<<>>} ELSE {Append(q, x) : q \in SeqsOfLen(S, n - 1), x \in S}

\* The sequences of up to two items, and each pair padded with its last item up to
\* MaxSeqLen items
PadTo(q, n) == [i \in 1..n |-> IF i <= Len(q) THEN q[i] ELSE q[Len(q)]]
SeqsOver(S) ==
  SeqsOfLen(S, 0) \cup SeqsOfLen(S, 1) \cup SeqsOfLen(S, 2)
    \cup {PadTo(q, n) : q \in SeqsOfLen(S, 2), n \in 3..MaxSeqLen}

Items == {PyInt(3), PyFloat(FromInt(4)), PyStr}
Others ==
  {PyVector2(vecs[j]) : j \in DOMAIN vecs}
    \cup {PySeq(q) : q \in SeqsOver(Items)}
    \cup {PyOther}

\* Construction
NextNew ==
  \/ \E x, y \in {Zero(FALSE), FromInt(3), Huge, NaN, Inf(FALSE), Inf(TRUE)} : New(x, y)
  \/ \E i \in DOMAIN vecs : GetX(i)
  \/ \E i \in DOMAIN vecs : GetY(i)

\* Arithmetic
NextVec ==
  \/ \E x, y \in {Zero(FALSE), Tiny, Huge, NaN} : New(x, y)
  \/ \E r \in {One, Inf(FALSE)}, theta \in {Zero(FALSE), Inf(FALSE)} : FromPolar(r, theta)
  \/ \E i \in DOMAIN vecs :
       \/ IsZero(i)
       \/ LengthSquared(i)
       \/ Length(i)
       \/ Normalized(i)
       \/ \E j \in DOMAIN vecs : Dot(i, j)
       \/ \E j \in DOMAIN vecs : Add(i, j)
       \/ \E k \in {FromInt(2), Inf(FALSE)} : Mul(i, k)

\* Comparison
NextCmp ==
  \/ New(FromInt(3), FromInt(4))
  \/ FromPolar(Inf(FALSE), Zero(FALSE))
  \/ \E i \in DOMAIN vecs, other \in Others, op \in CompareOps : RichCmp(i, other, op)

\* Iteration.  A run is followed from construction, or from the state it is in when
\* next(it) has been called usize::MAX - 1 times on the one cursor of one vector:
\* the third and every later one of those calls found pos >= 2, returned None and
\* added one to pos without overflow, which leaves pos = usize::MAX - 1.  From
\* either start the calls on a cursor are followed for MaxCalls calls.
LateCalls == BSub(UsizeMax, BFromInt(1))

InitLate ==
  /\ \E x \in {Zero(FALSE), FromInt(3)} : vecs = <<Vector2(x, FromInt(4))>>
  /\ iters = <<[v |-> vecs[1], pos |-> LateCalls]>>
  /\ src = <<1>>
  /\ calls = <<LateCalls>>
  /\ done = <<TRUE>>
  /\ ret = R("next", <<1>>, None)
  /\ checks \in BOOLEAN

InWindow(n) ==
  \/ BCmp(n, BFromInt(MaxCalls)) < 0
  \/ /\ BCmp(n, LateCalls) >= 0
     /\ BCmp(n, BAdd(LateCalls, BFromInt(MaxCalls))) < 0

NextIter ==
  \/ \E x \in {Zero(FALSE), FromInt(3)} : New(x, FromInt(4))
  \/ \E i \in DOMAIN vecs : Iter(i)
  \/ \E c \in DOMAIN iters : IterIter(c)
  \/ \E c \in DOMAIN iters : InWindow(calls[c]) /\ Next(c)

\* Every call
FullIters == 1
FullCalls == 2
Next_ ==
  \/ New(FromInt(3), FromInt(4))
  \/ FromPolar(One, Zero(FALSE))
  \/ \E i \in DOMAIN vecs :
       \/ GetX(i)
       \/ GetY(i)
       \/ IsZero(i)
       \/ LengthSquared(i)
       \/ Length(i)
       \/ Angle(i)
       \/ ToPolar(i)
       \/ Normalized(i)
       \/ Repr(i)
       \/ Str(i)
       \/ Len_(i)
       \/ \E j \in DOMAIN vecs : Dot(i, j)
       \/ \E j \in DOMAIN vecs : Add(i, j)
       \/ Mul(i, FromInt(2))
       \/ \E op \in CompareOps, other \in {PyVector2(vecs[i]), PyOther} :
            RichCmp(i, other, op)
       \/ Len(iters) < FullIters /\ Iter(i)
  \/ \E c \in DOMAIN iters : IterIter(c)
  \/ \E c \in DOMAIN iters : BCmp(calls[c], BFromInt(FullCalls)) < 0 /\ Next(c)

SpecNew == Init /\ [][NextNew]_vars
SpecVec == Init /\ [][NextVec]_vars
SpecCmp == Init /\ [][NextCmp]_vars
SpecIter == Init /\ [][NextIter]_vars
SpecLate == InitLate /\ [][NextIter]_vars
Spec == Init /\ [][Next_]_vars

(***************************************************************************)
(* The claims.                                                             *)
(***************************************************************************)

\* C1: Vector2(x, y) returns a new vector holding exactly (x, y) if and only if x
\* and y are both finite; for every other pair it returns the ValueError and no
\* vector is created.
C1_NewGate ==
  [][ret'.op = "new" =>
       LET x == ret'.args[1]
           y == ret'.args[2]
       IN  IF IsFinite(x) /\ IsFinite(y)
           THEN /\ vecs' = Append(vecs, [x |-> x, y |-> y])
                /\ ret'.val = Ref("Vector2", Len(vecs'))
           ELSE /\ vecs' = vecs
                /\ ret'.val.t = "Err"
                /\ ret'.val.exc = "ValueError"]_vars

\* A construction turned away for an infinite y, after one that succeeded
C1_Witness ==
  /\ ret.op = "new"
  /\ ret.val.t = "Err"
  /\ IsFinite(ret.args[1])
  /\ IsInf(ret.args[2])
  /\ Len(vecs) > 0

\* C2: the first __next__ on a cursor returns the x of the vector it was made
\* from, the second its y, the third None.
C2_XThenYThenNone ==
  ret.op = "next" =>
    LET c == ret.args[1]
        v == vecs[src[c]]
    IN  /\ calls[c] = BFromInt(1) => ret.val = Some(v.x)
        /\ calls[c] = BFromInt(2) => ret.val = Some(v.y)
        /\ calls[c] = BFromInt(3) => ret.val = None

\* The third call on a cursor over a vector with x # y has returned None
C2_Witness ==
  /\ ret.op = "next"
  /\ calls[ret.args[1]] = BFromInt(3)
  /\ ret.val = None
  /\ vecs[src[ret.args[1]]].x # vecs[src[ret.args[1]]].y

\* C3: iter(v) makes a new cursor at position 0 holding a copy of v and leaves
\* every cursor there is as it is; __next__ on one cursor leaves the position and
\* the copied coordinates of every other cursor as they are.
C3_IndependentCursors ==
  [][/\ ret'.op = "iter" =>
          /\ Len(iters') = Len(iters) + 1
          /\ iters'[Len(iters')] = [v |-> vecs[ret'.args[1]], pos |-> BFromInt(0)]
          /\ \A c \in DOMAIN iters : iters'[c] = iters[c]
     /\ \A c \in DOMAIN iters :
          calls'[c] # calls[c] =>
            \A d \in DOMAIN iters \ {c} : iters'[d] = iters[d]]_vars

\* Two cursors over one vector, the first exhausted, the second just advanced
C3_Witness ==
  /\ Len(iters) >= 2
  /\ src[1] = src[2]
  /\ iters[1].pos = BFromInt(3)
  /\ iters[2].pos = BFromInt(1)
  /\ ret.op = "next"
  /\ ret.args[1] = 2

\* C4: no call changes the x or y of a vector there is; normalized, __add__ and
\* __mul__ return a new object.
C4_Immutable ==
  [][/\ \A i \in DOMAIN vecs : i \in DOMAIN vecs' /\ vecs'[i] = vecs[i]
     /\ ret'.op \in {"normalized", "add", "mul"} =>
          /\ Len(vecs') = Len(vecs) + 1
          /\ ret'.val = Ref("Vector2", Len(vecs'))]_vars

\* A sum was returned while a cursor over an operand is part way through
C4_Witness ==
  /\ ret.op = "add"
  /\ Len(vecs) = 2
  /\ \E c \in DOMAIN iters : iters[c].pos = BFromInt(1)

IsNumeric(item) == item.t \in {"float", "int"}
NumOf(item) == IF item.t = "int" THEN FromInt(item.v) ELSE item.v
IsNumericSeq(other) ==
  other.kind = "seq" /\ \A k \in DOMAIN other.items : IsNumeric(other.items[k])

\* C5: v == w for a Vector2 w is true iff w.x == v.x and w.y == v.y; v == s for a
\* numeric sequence s is true iff len(s) == 2, s[0] == v.x and s[1] == v.y; and !=
\* returns the negation of what == returns.
C5_Equality ==
  (ret.op = "richcmp" /\ ret.args[3] \in {"Eq", "Ne"}) =>
    LET v     == vecs[ret.args[1]]
        other == ret.args[2]
        eqv   == FEq(other.v.x, v.x) /\ FEq(other.v.y, v.y)
        eqs   == /\ Len(other.items) = 2
                 /\ FEq(NumOf(other.items[1]), v.x)
                 /\ FEq(NumOf(other.items[2]), v.y)
    IN  /\ other.kind = "Vector2" =>
             ret.val = Bool(IF ret.args[3] = "Eq" THEN eqv ELSE ~eqv)
        /\ IsNumericSeq(other) =>
             ret.val = Bool(IF ret.args[3] = "Eq" THEN eqs ELSE ~eqs)

\* v == s has returned true for a sequence of an int and a float
C5_Witness ==
  /\ ret.op = "richcmp"
  /\ ret.args[3] = "Eq"
  /\ ret.args[2].kind = "seq"
  /\ ret.val = Bool(TRUE)

\* C6: __richcmp__ returns NotImplemented exactly when the operator is an
\* ordering, or it is == or != and the operand is neither a Vector2 nor a numeric
\* sequence; otherwise it returns a boolean; it never raises.
C6_NotImplemented ==
  ret.op = "richcmp" =>
    LET other == ret.args[2]
    IN  /\ ret.val.t \in {"bool", "NotImplemented"}
        /\ ret.val = NotImplemented <=>
             \/ ret.args[3] \notin {"Eq", "Ne"}
             \/ other.kind # "Vector2" /\ ~IsNumericSeq(other)

\* v != s has returned NotImplemented for a sequence holding a str
C6_Witness ==
  /\ ret.op = "richcmp"
  /\ ret.args[3] = "Ne"
  /\ ret.args[2].kind = "seq"
  /\ ret.val = NotImplemented

\* C7: every Vector2 there is has a finite x and a finite y.
C7_AllFinite ==
  \A i \in DOMAIN vecs : IsFinite(vecs[i].x) /\ IsFinite(vecs[i].y)

\* C8: normalized() of a vector with finite coordinates returns (1, 0) when
\* x == 0 and y == 0, and otherwise divides by a length() that is not zero and
\* returns (x / length, y / length).
C8_NormalizedTotal ==
  ret.op = "normalized" =>
    LET v == vecs[ret.args[1]]
        r == vecs[ret.val.ref]
    IN  (IsFinite(v.x) /\ IsFinite(v.y)) =>
          IF FEq(v.x, Zero(FALSE)) /\ FEq(v.y, Zero(FALSE))
          THEN r = Vector2(One, Zero(FALSE))
          ELSE /\ ~IsZeroF(length(v))
               /\ r = Vector2(FDiv(v.x, length(v)), FDiv(v.y, length(v)))

\* C9: the position of a cursor is 0, 1 or 2.
C9_PosRange ==
  \A c \in DOMAIN iters : iters[c].pos \in {BFromInt(0), BFromInt(1), BFromInt(2)}

\* C10: once __next__ has returned None on a cursor, every later __next__ on it
\* returns None.
C10_ExhaustionAbsorbing ==
  [][\A c \in DOMAIN iters :
       (done[c] /\ calls'[c] # calls[c]) => ret'.val = None]_vars

=============================================================================
